---- MODULE Spec2Model ----
(***************************************************************************)
(* Model of the easyEnergy client (src/src/easyenergy/easyenergy.py) and   *)
(* of its price models (src/easyenergy/models.py).                         *)
(*                                                                         *)
(* Time is counted in ticks of 30 minutes since an arbitrary UTC midnight. *)
(* A price is a Python float (IEEE 754 binary64).  A float is written as   *)
(* a sign and a magnitude, the magnitude an exact multiple of 2^-Frac      *)
(* held as a little-endian sequence of limbs below Base.  A float that is  *)
(* the result of parsing or of rounding to d decimals is named in the      *)
(* state by its decimal numerator (0.000095 is 95 at 6 decimals).          *)
(***************************************************************************)
EXTENDS Integers, Sequences, FiniteSets, TLC

(***************************************************************************)
(* Natural numbers of any size: little-endian limbs, no leading zero limb. *)
(***************************************************************************)
LimbBits == 14
Base == 2^LimbBits
FracLimbs == 6
Frac == FracLimbs * LimbBits
MantBits == 53

Rest(a) == IF a = <<>> THEN <<>> ELSE Tail(a)
Limb(a, i) == IF i <= Len(a) THEN a[i] ELSE 0

RECURSIVE Norm(_)
Norm(a) ==
    IF a = <<>> THEN a
    ELSE IF a[Len(a)] = 0 THEN Norm(SubSeq(a, 1, Len(a) - 1)) ELSE a

RECURSIVE Big(_)
Big(n) == IF n = 0 THEN <<>> ELSE <<n % Base>> \o Big(n \div Base)

RECURSIVE ToInt(_)
ToInt(a) == IF a = <<>> THEN 0 ELSE a[1] + Base * ToInt(Tail(a))

RECURSIVE AddC(_, _, _)
AddC(a, b, c) ==
    IF a = <<>> /\ b = <<>> THEN Big(c)
    ELSE LET s == Limb(a, 1) + Limb(b, 1) + c
         IN  <<s % Base>> \o AddC(Rest(a), Rest(b), s \div Base)

RECURSIVE SubB(_, _, _)
SubB(a, b, br) ==
    IF a = <<>> THEN <<>>
    ELSE LET d == a[1] - Limb(b, 1) - br
         IN  <<d % Base>> \o SubB(Tail(a), Rest(b), IF d < 0 THEN 1 ELSE 0)

BSub(a, b) == Norm(SubB(a, b, 0))

RECURSIVE CmpTop(_, _, _)
CmpTop(a, b, i) ==
    IF i = 0 THEN 0
    ELSE IF a[i] > b[i] THEN 1
    ELSE IF a[i] < b[i] THEN -1
    ELSE CmpTop(a, b, i - 1)

BCmp(a, b) ==
    IF Len(a) > Len(b) THEN 1
    ELSE IF Len(a) < Len(b) THEN -1
    ELSE CmpTop(a, b, Len(a))

RECURSIVE MulC(_, _, _)
MulC(a, k, c) ==
    IF a = <<>> THEN Big(c)
    ELSE LET p == a[1] * k + c
         IN  <<p % Base>> \o MulC(Tail(a), k, p \div Base)

RECURSIVE DivSmall(_, _)
DivSmall(a, k) ==
    IF a = <<>> THEN [q |-> <<>>, r |-> 0]
    ELSE LET hi  == DivSmall(Tail(a), k)
             cur == hi.r * Base + a[1]
         IN  [q |-> <<cur \div k>> \o hi.q, r |-> cur % k]

RECURSIVE BitLenLimb(_)
BitLenLimb(x) == IF x = 0 THEN 0 ELSE 1 + BitLenLimb(x \div 2)

BitLen(a) ==
    IF a = <<>> THEN 0 ELSE (Len(a) - 1) * LimbBits + BitLenLimb(a[Len(a)])

Bit(a, i) == (Limb(a, (i \div LimbBits) + 1) \div (2^(i % LimbBits))) % 2

ShiftL(a, d) ==
    IF a = <<>> THEN <<>>
    ELSE [i \in 1..(d \div LimbBits) |-> 0] \o MulC(a, 2^(d % LimbBits), 0)

ShiftR(a, d) ==
    LET w == d \div LimbBits
    IN  IF w >= Len(a) THEN <<>>
        ELSE Norm(DivSmall(SubSeq(a, w + 1, Len(a)), 2^(d % LimbBits)).q)

LowNonZero(a, d) == d > 0 /\ a # ShiftL(ShiftR(a, d), d)

(* floor(D / B) with its remainder by binary long division, from bit hi of *)
(* D down to bit lo; st holds the remainder r and the quotient q so far.   *)
(* The range is halved so that the evaluation never nests deeply; the test *)
(* on upper has it evaluated before the lower half starts.                 *)
DivStep(D, B, i, st) ==
    LET R2 == AddC(st.r, st.r, Bit(D, i))
    IN  IF BCmp(R2, B) >= 0
        THEN [r |-> BSub(R2, B), q |-> AddC(st.q, st.q, 1)]
        ELSE [r |-> R2, q |-> AddC(st.q, st.q, 0)]

RECURSIVE DivRange(_, _, _, _, _)
DivRange(D, B, hi, lo, st) ==
    IF hi < lo THEN st
    ELSE IF hi = lo THEN DivStep(D, B, hi, st)
    ELSE LET mid   == (hi + lo + 1) \div 2
             upper == DivRange(D, B, hi, mid, st)
         IN  IF Len(upper.q) >= 0 THEN DivRange(D, B, mid - 1, lo, upper)
             ELSE upper

LongDiv(D, B) == DivRange(D, B, BitLen(D) - 1, 0, [r |-> <<>>, q |-> <<>>])

(***************************************************************************)
(* binary64: every result is rounded to MantBits significant bits, ties to *)
(* even.  sticky tells that the exact value lies strictly above a.         *)
(***************************************************************************)
RoundSig(a, sticky) ==
    LET L == BitLen(a)
    IN  IF L <= MantBits THEN a
        ELSE LET d  == L - MantBits
                 q  == ShiftR(a, d)
                 up == Bit(a, d - 1) = 1
                       /\ (sticky \/ LowNonZero(a, d - 1) \/ Bit(q, 0) = 1)
             IN  ShiftL(IF up THEN AddC(q, <<>>, 1) ELSE q, d)

MkF(neg, mag) == [neg |-> neg /\ mag # <<>>, mag |-> mag]
FZero == MkF(FALSE, <<>>)
FNeg(x) == MkF(~x.neg, x.mag)

FAdd(x, y) ==
    IF x.neg = y.neg THEN MkF(x.neg, RoundSig(AddC(x.mag, y.mag, 0), FALSE))
    ELSE LET c == BCmp(x.mag, y.mag)
         IN  IF c = 0 THEN FZero
             ELSE IF c > 0 THEN MkF(x.neg, RoundSig(BSub(x.mag, y.mag), FALSE))
             ELSE MkF(y.neg, RoundSig(BSub(y.mag, x.mag), FALSE))

FSub(x, y) == FAdd(x, FNeg(y))

FLess(x, y) ==
    IF x.neg # y.neg THEN x.neg
    ELSE IF x.neg THEN BCmp(x.mag, y.mag) > 0
    ELSE BCmp(x.mag, y.mag) < 0

FAbsGE(x, y) == BCmp(x.mag, y.mag) >= 0

(* x / n for a small positive integer n *)
FDivInt(x, n) ==
    LET d == DivSmall(x.mag, n)
    IN  MkF(x.neg, RoundSig(Norm(d.q), d.r # 0))

(* x * k for a small positive integer k *)
FMulInt(x, k) == MkF(x.neg, RoundSig(MulC(x.mag, k, 0), FALSE))

(* x / y, y not zero *)
FDiv(x, y) ==
    LET need == (MantBits + 3) + BitLen(y.mag) - BitLen(x.mag)
        s    == IF need > 0 THEN need ELSE 0
        D    == ShiftL(x.mag, s)
        d    == LongDiv(D, y.mag)
        m    == RoundSig(d.q, d.r # <<>>)
    IN  MkF(x.neg # y.neg,
            IF Frac >= s THEN ShiftL(m, Frac - s) ELSE ShiftR(m, s - Frac))

RECURSIVE DivPow10(_, _, _)
DivPow10(a, d, st) ==
    IF d = 0 THEN [q |-> a, s |-> st]
    ELSE LET r == DivSmall(a, 10)
         IN  DivPow10(Norm(r.q), d - 1, st \/ r.r # 0)

(* the float nearest to n / 10^d: float("0.000095") is FromDecimal(95, 6) *)
FromDecimal(n, d) ==
    LET r == DivPow10(ShiftL(Big(IF n < 0 THEN -n ELSE n), Frac), d, FALSE)
    IN  MkF(n < 0, RoundSig(r.q, r.s))

(* round(x, d): the numerator K of the decimal K / 10^d nearest to x, ties *)
(* of the exact binary value to even; Python returns FromDecimal(K, d).    *)
RoundDecimal(x, d) ==
    LET a  == MulC(x.mag, 10^d, 0)
        q  == ShiftR(a, Frac)
        up == Bit(a, Frac - 1) = 1
              /\ (LowNonZero(a, Frac - 1) \/ Bit(q, 0) = 1)
        K  == ToInt(q) + (IF up THEN 1 ELSE 0)
    IN  IF x.neg THEN -K ELSE K

(***************************************************************************)
(* Time, record timestamps and the inputs the model draws from.            *)
(***************************************************************************)
Hour == 2
Day == 24 * Hour
MaxRecords == 3
MaxResponse == 2

(* "Timestamp" strings "%Y-%m-%dT%H:%M:%S%z": wall-clock reading and offset *)
TimestampStrings ==
    { [wall |-> 22, off |-> 2],     \* 11:00:00+0100
      [wall |-> 20, off |-> 0],     \* 10:00:00+0000, the same instant
      [wall |-> 21, off |-> 0],     \* 10:30:00+0000
      [wall |-> 22, off |-> 0] }    \* 11:00:00+0000

(* tariffs as the JSON number with 6 decimals: 95 is 0.000095 *)
PriceLiterals == {-2770, 0, 95, 225}
(* usage and return tariff of a record; 0.000004 is 0.0 at 5 decimals *)
ElectricityTariffs == { <<95, 4>>, <<225, 0>>, <<0, -2770>> }
TariffLiterals ==
    PriceLiterals \cup {p[1] : p \in ElectricityTariffs}
                  \cup {p[2] : p \in ElectricityTariffs}

GasRecords ==
    { [Timestamp |-> t, TariffUsage |-> p] :
        t \in TimestampStrings, p \in PriceLiterals }
ElectricityRecords ==
    { [Timestamp |-> t, TariffUsage |-> p[1], TariffReturn |-> p[2]] :
        t \in TimestampStrings, p \in ElectricityTariffs }

SeqsUpTo(S, n) == UNION { [1..k -> S] : k \in 0..n }

ClockValues == {21, 22, 28}
Moments == 19..23

(***************************************************************************)
(* Python values                                                           *)
(***************************************************************************)
None == <<>>
Float(k) == <<k>>
Raise(exc) == [kind |-> "raise", exc |-> exc]
Return(v) == [kind |-> "return", value |-> v]

(* json number -> float, and round(price, 5) of a stored price *)
PyFloat == [p \in TariffLiterals |-> FromDecimal(p, 6)]
round5 == [p \in TariffLiterals |-> RoundDecimal(PyFloat[p], 5)]

(* a parse that also drops the minutes of the instant *)
strptime_truncated(s) == ((s.wall - s.off) \div Hour) * Hour

(* datetime.strptime(item["Timestamp"], "%Y-%m-%dT%H:%M:%S%z"): an aware    *)
(* datetime; as a dict key it is compared and hashed by its UTC instant     *)
strptime(s) == s.wall - s.off

(* a dict assignment that only replaces the value of a key already there *)
DictSet_no_insert(d, key, value) ==
    [i \in 1..Len(d) |->
        IF d[i].timestamp = key
        THEN [timestamp |-> key, price |-> value] ELSE d[i]]

(* prices[key] = value on a dict kept as the sequence of its items *)
DictSet(d, key, value) ==
    IF \E i \in 1..Len(d) : d[i].timestamp = key
    THEN [i \in 1..Len(d) |->
            IF d[i].timestamp = key
            THEN [timestamp |-> key, price |-> value] ELSE d[i]]
    ELSE Append(d, [timestamp |-> key, price |-> value])

RECURSIVE FillDict(_, _, _)
FillDict(d, data, field) ==
    IF data = <<>> THEN d
    ELSE FillDict(DictSet(d, strptime(Head(data).Timestamp), Head(data)[field]),
                  Tail(data), field)

NoModel == [cls |-> "None"]

(* a construction that leaves return prices of 0 out *)
Electricity_from_dict_nonzero(data) ==
    [cls |-> "Electricity",
     usage_prices  |-> FillDict(<<>>, data, "TariffUsage"),
     return_prices |-> FillDict(<<>>,
                           SelectSeq(data, LAMBDA item : item.TariffReturn # 0),
                           "TariffReturn")]

Electricity_from_dict(data) ==
    [cls |-> "Electricity",
     usage_prices  |-> FillDict(<<>>, data, "TariffUsage"),
     return_prices |-> FillDict(<<>>, data, "TariffReturn")]

(* a construction that keeps, for a timestamp, the price it saw first *)
Gas_from_dict_first_price(data) ==
    LET at(i) == strptime(data[i].Timestamp)
        keep  == SelectSeq([i \in 1..Len(data) |-> i],
                           LAMBDA i : \A j \in 1..(i - 1) : at(j) # at(i))
    IN  [cls |-> "Gas",
         prices |-> [n \in 1..Len(keep) |->
                       [timestamp |-> at(keep[n]),
                        price |-> data[keep[n]].TariffUsage]]]

Gas_from_dict(data) ==
    [cls |-> "Gas", prices |-> FillDict(<<>>, data, "TariffUsage")]

(* the dict a query reads: data_type is "usage" or "return" *)
Series(m, data_type) ==
    IF m.cls = "Gas" THEN m.prices
    ELSE IF data_type = "return" THEN m.return_prices
    ELSE m.usage_prices

Values(prices) == [i \in 1..Len(prices) |-> prices[i].price]

RECURSIVE timed_value_loop(_, _, _)
timed_value_loop(moment, prices, value) ==
    IF prices = <<>> THEN value
    ELSE LET timestamp == Head(prices).timestamp
             price     == Head(prices).price
         IN  timed_value_loop(moment, Tail(prices),
                 IF timestamp <= moment /\ moment < timestamp + Hour
                 THEN Float(round5[price]) ELSE value)

(* a loop that stops at the first point whose hour holds the moment *)
RECURSIVE timed_value_first(_, _)
timed_value_first(moment, prices) ==
    IF prices = <<>> THEN None
    ELSE LET timestamp == Head(prices).timestamp
         IN  IF timestamp <= moment /\ moment < timestamp + Hour
             THEN Float(round5[Head(prices).price])
             ELSE timed_value_first(moment, Tail(prices))

timed_value(moment, prices) == timed_value_loop(moment, prices, None)

price_at_time(m, moment, data_type) ==
    LET value == timed_value(moment, Series(m, data_type))
    IN  IF value # None \/ value = Float(0) THEN value ELSE None

(* a clock accessor that reads the wall clock of a zone an hour ahead *)
utcnow_local(clock) == clock + Hour

(* the clock accessor utcnow(): datetime.now(timezone.utc) *)
utcnow(clock) == clock

(* a current price that reads the usage series whatever it is asked for *)
current_price_usage_only(m, clock, data_type) ==
    price_at_time(m, utcnow(clock), "usage")

current_price(m, clock, data_type) == price_at_time(m, utcnow(clock), data_type)

(* min(values) / max(values): the first of the smallest / largest floats *)
RECURSIVE py_min(_, _)
py_min(values, best) ==
    IF values = <<>> THEN best
    ELSE py_min(Tail(values),
                IF FLess(PyFloat[Head(values)], PyFloat[best])
                THEN Head(values) ELSE best)

RECURSIVE py_max(_, _)
py_max(values, best) ==
    IF values = <<>> THEN best
    ELSE py_max(Tail(values),
                IF FLess(PyFloat[best], PyFloat[Head(values)])
                THEN Head(values) ELSE best)

(* the pair taken from the first and the last value instead *)
extreme_prices_ends(prices) ==
    LET values == Values(prices)
    IN  IF values = <<>> THEN Raise("ValueError")
        ELSE Return(<<round5[values[1]], round5[values[Len(values)]]>>)

extreme_prices(prices) ==
    LET values == Values(prices)
    IN  IF values = <<>> THEN Raise("ValueError")
        ELSE Return(<<round5[py_min(Tail(values), Head(values))],
                      round5[py_max(Tail(values), Head(values))]>>)

(* the builtin sum() of floats adds from left to right up to CPython 3.11   *)
(* and with Neumaier's compensation from CPython 3.12 on; the package runs  *)
(* on both, so a call of sum() is either of them                            *)
Builds == {"sequential", "compensated"}

RECURSIVE sum_sequential(_, _)
sum_sequential(values, acc) ==
    IF values = <<>> THEN acc
    ELSE sum_sequential(Tail(values), FAdd(acc, PyFloat[Head(values)]))

RECURSIVE sum_compensated(_, _, _)
sum_compensated(values, s, c) ==
    IF values = <<>> THEN (IF c # FZero THEN FAdd(s, c) ELSE s)
    ELSE LET x == PyFloat[Head(values)]
             t == FAdd(s, x)
         IN  sum_compensated(Tail(values), t,
                 FAdd(c, IF FAbsGE(s, x) THEN FAdd(FSub(s, t), x)
                                         ELSE FAdd(FSub(x, t), s)))

sum(values, b) ==
    IF b = "sequential" THEN sum_sequential(values, FZero)
    ELSE sum_compensated(values, FZero, FZero)

(* round(sum(values) / len(values), 5) *)
mean5(values, b) == RoundDecimal(FDivInt(sum(values, b), Len(values)), 5)

Mean5 ==
    [x \in Builds \X (SeqsUpTo(TariffLiterals, MaxRecords) \ {<<>>}) |->
        mean5(x[2], x[1])] @@ <<>>

average_price(prices, b) ==
    IF prices = <<>> THEN Raise("ZeroDivisionError")
    ELSE Return(Mean5[<<b, Values(prices)>>])

(* round(current / maximum * 100, 2) on two prices rounded to 5 decimals *)
pct(current, maximum) ==
    RoundDecimal(
        FMulInt(FDiv(FromDecimal(current, 5), FromDecimal(maximum, 5)), 100), 2)

Rounded == {round5[p] : p \in TariffLiterals} \cup {0}

Pct == [x \in Rounded \X (Rounded \ {0}) |-> pct(x[1], x[2])] @@ <<>>

(* a percentage that is 0.0 as soon as no point holds the current instant *)
pct_of_max_guarded(m, clock, data_type) ==
    LET price   == current_price(m, clock, data_type)
        extreme == extreme_prices(Series(m, data_type))
    IN  IF extreme.kind = "raise" THEN extreme
        ELSE IF price = None THEN Return(0)
        ELSE IF extreme.value[2] = 0 THEN Raise("ZeroDivisionError")
        ELSE Return(Pct[<<price[1], extreme.value[2]>>])

pct_of_max(m, clock, data_type) ==
    LET price   == current_price(m, clock, data_type)
        current == IF price = None \/ price = Float(0) THEN 0 ELSE price[1]
        extreme == extreme_prices(Series(m, data_type))
    IN  IF extreme.kind = "raise" THEN extreme
        ELSE IF extreme.value[2] = 0 THEN Raise("ZeroDivisionError")
        ELSE Return(Pct[<<current, extreme.value[2]>>])

(* the list built from the last item to the first *)
generate_timestamp_list_reversed(prices) ==
    [i \in 1..Len(prices) |->
        [timestamp |-> prices[Len(prices) + 1 - i].timestamp,
         price |-> round5[prices[Len(prices) + 1 - i].price]]]

generate_timestamp_list(prices) ==
    [i \in 1..Len(prices) |->
        [timestamp |-> prices[i].timestamp, price |-> round5[prices[i].price]]]

(* the series a model of this class has *)
(* max(prices, key=prices.get) and min(prices, key=prices.get): the scan   *)
(* keeps the item it holds unless a later one is strictly better            *)
RECURSIVE pricetime_scan(_, _, _)
pricetime_scan(prices, func, best) ==
    IF prices = <<>> THEN best.timestamp
    ELSE LET item   == Head(prices)
             better == IF func = "max"
                       THEN FLess(PyFloat[best.price], PyFloat[item.price])
                       ELSE FLess(PyFloat[item.price], PyFloat[best.price])
         IN  pricetime_scan(Tail(prices), func, IF better THEN item ELSE best)

(* a scan that also moves on to a later item that is just as good *)
RECURSIVE pricetime_scan_last(_, _, _)
pricetime_scan_last(prices, func, best) ==
    IF prices = <<>> THEN best.timestamp
    ELSE LET item  == Head(prices)
             worse == IF func = "max"
                      THEN FLess(PyFloat[item.price], PyFloat[best.price])
                      ELSE FLess(PyFloat[best.price], PyFloat[item.price])
         IN  pricetime_scan_last(Tail(prices), func,
                                 IF worse THEN best ELSE item)

get_pricetime_last(prices, func) ==
    IF prices = <<>> THEN Raise("ValueError")
    ELSE Return(pricetime_scan_last(Tail(prices), func, Head(prices)))

get_pricetime(prices, func) ==
    IF prices = <<>> THEN Raise("ValueError")
    ELSE Return(pricetime_scan(Tail(prices), func, Head(prices)))

(* count_at_or_below(series, reference_price) and                           *)
(* count_at_or_above(other_series, reference_price), on the prices of the   *)
(* points at 5 decimals                                                     *)
RECURSIVE count_at_or_below(_, _)
count_at_or_below(prices, reference) ==
    IF prices = <<>> THEN 0
    ELSE (IF round5[Head(prices).price] <= reference THEN 1 ELSE 0)
         + count_at_or_below(Tail(prices), reference)

RECURSIVE count_at_or_above(_, _)
count_at_or_above(prices, reference) ==
    IF prices = <<>> THEN 0
    ELSE (IF round5[Head(prices).price] >= reference THEN 1 ELSE 0)
         + count_at_or_above(Tail(prices), reference)

(* hours_priced_equal_or_lower_usage and hours_priced_equal_or_higher_return: *)
(* the reference is the current price of the series, 0 when there is none   *)
hours_priced(m, clock, data_type) ==
    LET price     == current_price(m, clock, data_type)
        reference == IF price = None THEN 0 ELSE price[1]
    IN  IF data_type = "return"
        THEN Return(count_at_or_above(m.return_prices, reference))
        ELSE Return(count_at_or_below(m.usage_prices, reference))

DataTypes(m) == IF m.cls = "Gas" THEN {"usage"} ELSE {"usage", "return"}

(***************************************************************************)
(* The client: EasyEnergy.gas_prices and EasyEnergy.energy_prices          *)
(***************************************************************************)
VatOption == {"true", "false"}
NoArg == "None"

(* UTC offsets the local zone can have when a call is made: -05:00, +01:00 *)
LocalOffsets == {-5 * Hour, 1 * Hour}

MaxDate == 1
Dates == 0..MaxDate

(* the entry point calls a program has in progress at one time *)
MaxTasks == 2
Tasks == 1..MaxTasks


(* datetime.now(tz=local_tz).hour *)
local_hour(clock, offset) == ((clock + offset) % Day) \div Hour

(* the local zone: the UTC offset it has on a date when its offset at the  *)
(* time of the call is offset; summer time begins with date 1              *)
utcoffset(offset, date) == IF date >= 1 THEN offset + Hour ELSE offset

(* a conversion with the offset the zone has on the date itself *)
local_to_utc_zoned(date, hour, offset) ==
    date * Day + hour * Hour - utcoffset(offset, date)

(* datetime(y, m, d, hour, 0, 0, tzinfo=local_tz).astimezone(UTC), where   *)
(* local_tz is the fixed offset datetime.now(UTC).astimezone() carries     *)
local_to_utc(date, hour, offset) == date * Day + hour * Hour - offset

(* strftime("%Y-%m-%dT%H:%M:%S.000Z"): the fields of the text *)
strftime(t) ==
    [date |-> t \div Day, H |-> (t % Day) \div Hour,
     M |-> ((t % Hour) * 60) \div Hour, S |-> 0]

(* the day branch taken only after 06:59 *)
gas_window_after_six(start_date, end_date, hour, offset) ==
    IF hour > 6 /\ hour <= 23
    THEN [utc_start_date |-> local_to_utc(start_date, 6, offset),
          utc_end_date   |-> local_to_utc(end_date, 6, offset) + Day]
    ELSE [utc_start_date |-> local_to_utc(start_date, 6, offset) - Day,
          utc_end_date   |-> local_to_utc(end_date, 6, offset)]

gas_window(start_date, end_date, hour, offset) ==
    IF hour >= 6 /\ hour <= 23
    THEN [utc_start_date |-> local_to_utc(start_date, 6, offset),
          utc_end_date   |-> local_to_utc(end_date, 6, offset) + Day]
    ELSE [utc_start_date |-> local_to_utc(start_date, 6, offset) - Day,
          utc_end_date   |-> local_to_utc(end_date, 6, offset)]

(* the window with an hour of padding before local midnight *)
energy_window_padded(start_date, end_date, offset) ==
    [utc_start_date |-> local_to_utc(start_date, 0, offset) - Hour,
     utc_end_date   |-> local_to_utc(end_date, 0, offset) + Day]

energy_window(start_date, end_date, offset) ==
    [utc_start_date |-> local_to_utc(start_date, 0, offset),
     utc_end_date   |-> local_to_utc(end_date, 0, offset) + Day]

(* the parameters with the client's default whatever the call asked for *)
request_params_default_only(window, vat_arg, default_vat) ==
    [startTimestamp |-> strftime(window.utc_start_date),
     endTimestamp   |-> strftime(window.utc_end_date),
     includeVat     |-> default_vat]

request_params(window, vat_arg, default_vat) ==
    [startTimestamp |-> strftime(window.utc_start_date),
     endTimestamp   |-> strftime(window.utc_end_date),
     includeVat     |-> IF vat_arg # NoArg THEN vat_arg ELSE default_vat]

(* an entry point that builds the model without looking at the length *)
gas_prices_result_unguarded(data) == Return(Gas_from_dict(data))

(* what the entry point does with the data that _request returned *)
gas_prices_result(data) ==
    IF Len(data) = 0 THEN Raise("EasyEnergyNoDataError")
    ELSE Return(Gas_from_dict(data))

energy_prices_result(data) ==
    IF Len(data) = 0 THEN Raise("EasyEnergyNoDataError")
    ELSE Return(Electricity_from_dict(data))

(* _request: the answers of the resolver and of the server *)
(* a Content-Type header as its parts; <<>> is the "" of a missing header *)
ContentTypes ==
    { <<"application/json", "; charset=utf-8">>, <<"text/html">>, <<>> }

(* "application/json" in content_type *)
HasJson(content_type) ==
    \E i \in 1..Len(content_type) : content_type[i] = "application/json"

(* the records the provider sends: UTC timestamps on the hour, in order    *)
(* of time                                                                 *)
Provided(records) ==
    { r \in records : r.Timestamp.off = 0 /\ r.Timestamp.wall % Hour = 0 }

InOrder(body) ==
    \A i \in 1..(Len(body) - 1) :
        body[i].Timestamp.wall < body[i + 1].Timestamp.wall

GasBodies ==
    { body \in SeqsUpTo(Provided(GasRecords), MaxResponse) : InOrder(body) }
ElectricityBodies ==
    { body \in SeqsUpTo(Provided(ElectricityRecords), MaxResponse) :
        InOrder(body) }

(* a body is read as JSON only under a JSON content type *)
Answers(bodies) ==
    [dns : {"DNSError", "empty"}]
    \cup [dns : {"hosts"}, reply : {"TimeoutError", "ClientError", "gaierror"}]
    \cup [dns : {"hosts"}, reply : {"response"},
          content_type : {c \in ContentTypes : HasJson(c)}, body : bodies]
    \cup [dns : {"hosts"}, reply : {"response"},
          content_type : {c \in ContentTypes : ~HasJson(c)}, body : {<<>>}]

GasAnswers == Answers(GasBodies)
ElectricityAnswers == Answers(ElectricityBodies)
FailedAnswers == Answers({<<>>})

NoSession == [by |-> "None"]
ClientSession(by) == [by |-> by, closed |-> FALSE]

(* a _request that reports every failure as a connection error *)
request_all_connection(sess, close, answer) ==
    IF answer.dns = "DNSError" \/ answer.dns = "empty"
    THEN [res |-> Raise("EasyEnergyConnectionError"),
          session |-> sess, close_session |-> close,
          constructed |-> 0, issued |-> 0]
    ELSE [res |-> IF answer.reply # "response" \/ ~HasJson(answer.content_type)
                  THEN Raise("EasyEnergyConnectionError")
                  ELSE Return(answer.body),
          session |-> IF sess = NoSession THEN ClientSession("client") ELSE sess,
          close_session |-> IF sess = NoSession THEN TRUE ELSE close,
          constructed |-> IF sess = NoSession THEN 1 ELSE 0,
          issued |-> 1]

(* a _request that makes sure of a session before it resolves the host *)
request_session_first(sess, close, answer) ==
    [res |-> IF answer.dns # "hosts" \/ answer.reply # "response"
             THEN Raise("EasyEnergyConnectionError")
             ELSE IF ~HasJson(answer.content_type)
             THEN Raise("EasyEnergyError")
             ELSE Return(answer.body),
     session |-> IF sess = NoSession THEN ClientSession("client") ELSE sess,
     close_session |-> IF sess = NoSession THEN TRUE ELSE close,
     constructed |-> IF sess = NoSession THEN 1 ELSE 0,
     issued |-> IF answer.dns = "hosts" THEN 1 ELSE 0]

(* _request: what it raises or returns, self.session and                   *)
(* self._close_session when it ends, how many ClientSession() it           *)
(* constructed and how many session.request() it issued                    *)
request(sess, close, answer) ==
    IF answer.dns = "DNSError"
    THEN [res |-> Raise("EasyEnergyConnectionError"),
          session |-> sess, close_session |-> close,
          constructed |-> 0, issued |-> 0]
    ELSE IF answer.dns = "empty"
    THEN [res |-> Raise("EasyEnergyConnectionError"),
          session |-> sess, close_session |-> close,
          constructed |-> 0, issued |-> 0]
    ELSE [res |-> IF answer.reply = "TimeoutError"
                  THEN Raise("EasyEnergyConnectionError")
                  ELSE IF answer.reply \in {"ClientError", "gaierror"}
                  THEN Raise("EasyEnergyConnectionError")
                  ELSE IF ~HasJson(answer.content_type)
                  THEN Raise("EasyEnergyError")
                  ELSE Return(answer.body),
          session |-> IF sess = NoSession THEN ClientSession("client") ELSE sess,
          close_session |-> IF sess = NoSession THEN TRUE ELSE close,
          constructed |-> IF sess = NoSession THEN 1 ELSE 0,
          issued |-> 1]

(* an entry point that reports a failed request as missing data *)
entry_point_no_data(fn, res) ==
    IF res.kind = "raise" THEN Raise("EasyEnergyNoDataError")
    ELSE IF fn = "gas_prices" THEN gas_prices_result(res.value)
    ELSE energy_prices_result(res.value)

(* data = await self._request(...) and the rest of the entry point: what   *)
(* _request raises passes through                                          *)
entry_point(fn, res) ==
    IF res.kind = "raise" THEN res
    ELSE IF fn = "gas_prices" THEN gas_prices_result(res.value)
    ELSE energy_prices_result(res.value)

VARIABLES
    session,        \* EasyEnergy.session
    close_session,  \* EasyEnergy._close_session
    now,        \* the clock, a UTC instant
    vat,        \* EasyEnergy.vat, the client's default
    call,       \* the entry point call in progress and the request it sent
    outcome,    \* how the last entry point call ended
    model,      \* the Gas or Electricity object the caller holds
    result,     \* the last query of the model and what it gave
    tasks,      \* the _request coroutines of concurrent entry point calls
    created     \* how many ClientSession() the client has constructed

vars == <<session, close_session, now, vat, call, outcome, model, result,
          tasks, created>>

NoCall == [state |-> "idle"]
NoTask == [pc |-> "idle"]
NoOutcome == [kind |-> "none"]
NoResult == [op |-> "none"]

Init ==
    /\ session \in {NoSession, ClientSession("caller")}
    /\ close_session = FALSE
    /\ now \in ClockValues
    /\ vat \in VatOption
    /\ call = NoCall
    /\ outcome = NoOutcome
    /\ model = NoModel
    /\ result = NoResult
    /\ tasks = [t \in Tasks |-> NoTask]
    /\ created = 0

Tick ==
    /\ \E t \in ClockValues : t > now /\ now' = t
    /\ UNCHANGED <<session, close_session, vat, call, outcome, model, result>>
    /\ UNCHANGED <<tasks, created>>

(* gas_prices up to its await of _request *)
gas_prices ==
    /\ call.state # "awaiting"
    /\ \E start_date \in Dates, end_date \in Dates,
          vat_arg \in VatOption \cup {NoArg}, offset \in LocalOffsets :
          LET hour == local_hour(now, offset)
          IN  call' = [state |-> "awaiting", fn |-> "gas_prices", at |-> now,
                       start_date |-> start_date, end_date |-> end_date,
                       vat_arg |-> vat_arg, offset |-> offset,
                       hour |-> hour, requests |-> 0,
                       uri |-> "getlebatariffs",
                       params |-> request_params(
                           gas_window(start_date, end_date, hour, offset),
                           vat_arg, vat)]
    /\ outcome' = NoOutcome
    /\ model' = NoModel
    /\ UNCHANGED <<session, close_session, now, vat, result>>
    /\ UNCHANGED <<tasks, created>>

(* energy_prices up to its await of _request *)
energy_prices ==
    /\ call.state # "awaiting"
    /\ \E start_date \in Dates, end_date \in Dates,
          vat_arg \in VatOption \cup {NoArg}, offset \in LocalOffsets :
          call' = [state |-> "awaiting", fn |-> "energy_prices", at |-> now,
                   start_date |-> start_date, end_date |-> end_date,
                   vat_arg |-> vat_arg, offset |-> offset,
                   hour |-> local_hour(now, offset), requests |-> 0,
                   uri |-> "getapxtariffs",
                   params |-> request_params(
                       energy_window(start_date, end_date, offset),
                       vat_arg, vat)]
    /\ outcome' = NoOutcome
    /\ model' = NoModel
    /\ UNCHANGED <<session, close_session, now, vat, result>>
    /\ UNCHANGED <<tasks, created>>

(* the tariffs of a record: the item without its "Timestamp" *)
Tariffs(item) == [f \in (DOMAIN item) \ {"Timestamp"} |-> item[f]]

(* what a caller of from_dict passed: how many records, the instants of    *)
(* their "Timestamp" texts, these in record order when no two are the same *)
(* instant, and per instant, in the order the instants first occur, the    *)
(* tariffs of the last record that carries it                               *)
Passed(data) ==
    LET at == [i \in 1..Len(data) |->
                  data[i].Timestamp.wall - data[i].Timestamp.off]
        distinct == Cardinality({at[i] : i \in 1..Len(data)}) = Len(data)
        first == SelectSeq([i \in 1..Len(data) |-> i],
                           LAMBDA i : \A j \in 1..(i - 1) : at[j] # at[i])
        last(i) == CHOOSE k \in i..Len(data) :
                       /\ at[k] = at[i]
                       /\ \A j \in (k + 1)..Len(data) : at[j] # at[i]
    IN  [count |-> Len(data), distinct |-> distinct,
         instants |-> {at[i] : i \in 1..Len(data)},
         in_order |-> IF distinct THEN at ELSE <<>>,
         last_of |-> [n \in 1..Len(first) |->
                        [timestamp |-> at[first[n]],
                         item |-> Tariffs(data[last(first[n])])]]]

(* what is kept of an answer: of the body, the number of its records *)
Cause(answer) ==
    IF answer.dns = "hosts" /\ answer.reply = "response"
    THEN [dns |-> "hosts", reply |-> "response",
          content_type |-> answer.content_type, sent |-> Len(answer.body)]
    ELSE answer

(* _request ends and with it the entry point: it returns a model or raises *)
Finish(fn, answer) ==
    LET r   == request(session, close_session, answer)
        res == entry_point(fn, r.res)
    IN  /\ outcome' = [kind |-> res.kind, fn |-> fn,
                       records |-> IF r.res.kind = "return"
                                   THEN Len(r.res.value) ELSE -1,
                       exc |-> IF res.kind = "raise" THEN res.exc ELSE NoArg,
                       cause |-> Cause(answer),
                       request |-> IF r.res.kind = "raise" THEN r.res.exc
                                   ELSE NoArg,
                       requests |-> call.requests + 1]
        /\ model' = IF res.kind = "return" THEN res.value ELSE NoModel
        /\ session' = r.session
        /\ close_session' = r.close_session
        /\ call' = NoCall
        /\ created' = created + r.constructed
        /\ UNCHANGED <<now, vat, result, tasks>>

gas_prices_resume ==
    /\ call.state = "awaiting" /\ call.fn = "gas_prices"
    /\ \E answer \in GasAnswers :
          /\ request(session, close_session, answer).res.kind = "return"
          /\ Finish("gas_prices", answer)

energy_prices_resume ==
    /\ call.state = "awaiting" /\ call.fn = "energy_prices"
    /\ \E answer \in ElectricityAnswers :
          /\ request(session, close_session, answer).res.kind = "return"
          /\ Finish("energy_prices", answer)

(* _request raises and the error passes through the entry point *)
request_raises ==
    /\ call.state = "awaiting"
    /\ \E answer \in FailedAnswers :
          /\ request(session, close_session, answer).res.kind = "raise"
          /\ Finish(call.fn, answer)

(* a close() that closes whatever session the client holds *)
close_any ==
    /\ session # NoSession
    /\ session' = [session EXCEPT !.closed = TRUE]
    /\ UNCHANGED <<close_session, now, vat, call, outcome, model, result>>
    /\ UNCHANGED <<tasks, created>>

(* a close() that also lets go of the session it closed *)
close_and_forget ==
    /\ session' = IF session # NoSession /\ close_session
                  THEN NoSession
                  ELSE session
    /\ UNCHANGED <<close_session, now, vat, call, outcome, model, result>>
    /\ UNCHANGED <<tasks, created>>

(* close(), also what leaving the async context awaits *)
close ==
    /\ session' = IF session # NoSession /\ close_session
                  THEN [session EXCEPT !.closed = TRUE]
                  ELSE session
    /\ UNCHANGED <<close_session, now, vat, call, outcome, model, result>>
    /\ UNCHANGED <<tasks, created>>

(* Entry point calls that run concurrently on one event loop. A task is    *)
(* the _request of one call, which runs from one await to the next without *)
(* a switch to another task. Its answer is what the resolver and the       *)
(* server are going to give it.                                            *)

(* an entry point awaits _request, which awaits dns.query *)
request_start ==
    /\ \E t \in Tasks, answer \in FailedAnswers :
          /\ tasks[t].pc \in {"idle", "done"}
          /\ tasks' = [tasks EXCEPT ![t] =
                          [pc |-> "dns", answer |-> answer, issued |-> 0,
                           using |-> NoSession, res |-> NoOutcome]]
    /\ UNCHANGED <<session, close_session, now, vat, call, outcome, model,
                   result, created>>

(* dns.query is over: _request raises, or takes the session, making one if *)
(* there is none, and awaits session.request on it                         *)
request_resolved ==
    /\ \E t \in Tasks :
          /\ tasks[t].pc = "dns"
          /\ LET r == request(session, close_session, tasks[t].answer)
             IN  /\ session' = r.session
                 /\ close_session' = r.close_session
                 /\ created' = created + r.constructed
                 /\ tasks' = [tasks EXCEPT ![t] =
                       IF r.issued = 0
                       THEN [@ EXCEPT !.pc = "done", !.res = r.res]
                       ELSE [@ EXCEPT !.pc = "request", !.issued = r.issued,
                                      !.using = [by |-> r.session.by,
                                                 nth |-> created']]]
    /\ UNCHANGED <<now, vat, call, outcome, model, result>>

(* session.request is over: _request raises, or awaits the body *)
request_replied ==
    /\ \E t \in Tasks :
          /\ tasks[t].pc = "request"
          /\ tasks' = [tasks EXCEPT ![t] =
                IF tasks[t].answer.reply = "response"
                THEN [@ EXCEPT !.pc = "read"]
                ELSE [@ EXCEPT !.pc = "done",
                        !.res = request(session, close_session,
                                        tasks[t].answer).res]]
    /\ UNCHANGED <<session, close_session, now, vat, call, outcome, model,
                   result, created>>

(* response.text() or response.json() is over: _request raises or returns *)
request_read ==
    /\ \E t \in Tasks :
          /\ tasks[t].pc = "read"
          /\ tasks' = [tasks EXCEPT ![t] =
                [@ EXCEPT !.pc = "done",
                          !.res = request(session, close_session,
                                          tasks[t].answer).res]]
    /\ UNCHANGED <<session, close_session, now, vat, call, outcome, model,
                   result, created>>

(* Electricity.from_dict / Gas.from_dict called on a record list *)
from_dict ==
    /\ model = NoModel
    /\ \/ \E data \in SeqsUpTo(GasRecords, MaxRecords) :
            /\ model' = Gas_from_dict(data)
            /\ outcome' = [kind |-> "return", fn |-> "Gas.from_dict",
                           passed |-> Passed(data), built |-> model']
       \/ \E data \in SeqsUpTo(ElectricityRecords, MaxRecords) :
            /\ model' = Electricity_from_dict(data)
            /\ outcome' = [kind |-> "return", fn |-> "Electricity.from_dict",
                           passed |-> Passed(data), built |-> model']
    /\ UNCHANGED <<session, close_session, now, vat, call, result>>
    /\ UNCHANGED <<tasks, created>>

(* a query that takes the first point out of the series it reads *)
Query_consuming(op, moment, data_type, out) ==
    /\ result' = [op |-> op, moment |-> moment, data_type |-> data_type,
                  out |-> out,
                  after_change |-> result.op = "list changed"]
    /\ model' = IF Series(model, data_type) = <<>> THEN model
                ELSE IF model.cls = "Gas"
                THEN [model EXCEPT !.prices = Tail(@)]
                ELSE IF data_type = "return"
                THEN [model EXCEPT !.return_prices = Tail(@)]
                ELSE [model EXCEPT !.usage_prices = Tail(@)]
    /\ UNCHANGED <<session, close_session, now, vat, call, outcome>>
    /\ UNCHANGED <<tasks, created>>

Query(op, moment, data_type, out) ==
    /\ result' = [op |-> op, moment |-> moment, data_type |-> data_type,
                  out |-> out,
                  after_change |-> result.op = "list changed"]
    /\ UNCHANGED <<session, close_session, now, vat, call, outcome, model>>
    /\ UNCHANGED <<tasks, created>>

PriceAtTime ==
    /\ model # NoModel
    /\ \E moment \in Moments, data_type \in DataTypes(model) :
          Query("price_at_time", moment, data_type,
                Return(price_at_time(model, moment, data_type)))

CurrentPrice ==
    /\ model # NoModel
    /\ \E data_type \in DataTypes(model) :
          Query("current_price", now, data_type,
                Return(current_price(model, now, data_type)))

ExtremePrices ==
    /\ model # NoModel
    /\ \E data_type \in DataTypes(model) :
          Query("extreme_prices", now, data_type,
                extreme_prices(Series(model, data_type)))

AveragePrice ==
    /\ model # NoModel
    /\ \E data_type \in DataTypes(model), b \in Builds :
          Query("average_price", now, data_type,
                average_price(Series(model, data_type), b))

PctOfMax ==
    /\ model.cls = "Electricity"
    /\ \E data_type \in DataTypes(model) :
          Query("pct_of_max", now, data_type,
                pct_of_max(model, now, data_type))

TimestampPrices ==
    /\ model.cls = "Electricity"
    /\ \E data_type \in DataTypes(model) :
          Query("timestamp_prices", now, data_type,
                Return(generate_timestamp_list(Series(model, data_type))))

PriceTime ==
    /\ model.cls = "Electricity"
    /\ \E data_type \in DataTypes(model) :
          \/ Query("lowest_price_time", now, data_type,
                   get_pricetime(Series(model, data_type), "min"))
          \/ Query("highest_price_time", now, data_type,
                   get_pricetime(Series(model, data_type), "max"))

HoursPriced ==
    /\ model.cls = "Electricity"
    /\ \E data_type \in DataTypes(model) :
          Query("hours_priced", now, data_type,
                hours_priced(model, now, data_type))

(* the caller removes the first entry of the list it was given *)
ChangeList ==
    /\ result.op = "timestamp_prices"
    /\ result.out.value # <<>>
    /\ result' = [result EXCEPT !.op = "list changed",
                                !.out = Return(Tail(result.out.value))]
    /\ UNCHANGED <<session, close_session, now, vat, call, outcome, model>>
    /\ UNCHANGED <<tasks, created>>

Discard ==
    /\ model # NoModel
    /\ model' = NoModel
    /\ outcome' = NoOutcome
    /\ result' = NoResult
    /\ UNCHANGED <<session, close_session, now, vat, call>>
    /\ UNCHANGED <<tasks, created>>

(* the client *)
Next ==
    \/ Tick
    \/ gas_prices \/ energy_prices
    \/ gas_prices_resume \/ energy_prices_resume \/ request_raises
    \/ close

Spec == Init /\ [][Next]_vars

(* a price model built from records and queried; no client takes part *)
ModelInit == Init /\ vat = "true" /\ session = NoSession

ModelNext ==
    \/ Tick \/ from_dict \/ Discard
    \/ PriceAtTime \/ CurrentPrice \/ ExtremePrices \/ AveragePrice
    \/ PctOfMax \/ TimestampPrices \/ ChangeList
    \/ PriceTime \/ HoursPriced

ModelSpec == ModelInit /\ [][ModelNext]_vars

(* a client whose entry points are called concurrently, and close() *)
ConcurrentInit == Init /\ vat = "true" /\ \A t \in ClockValues : now <= t

ConcurrentNext ==
    \/ request_start \/ request_resolved \/ request_replied
    \/ request_read \/ close

ConcurrentSpec == ConcurrentInit /\ [][ConcurrentNext]_vars

(***************************************************************************)
(* The properties                                                          *)
(***************************************************************************)
ModelBuilt == model # NoModel
Built(fns) == outcome.kind # "none" /\ outcome.fn \in fns
FromDict == {"Gas.from_dict", "Electricity.from_dict"}
EntryPoints == {"gas_prices", "energy_prices"}
Asked(op) == result.op = op
Asking(fn) == call.state = "awaiting" /\ call.fn = fn
Queried == Series(model, result.data_type)

(* the points of a dict whose hour [timestamp, timestamp + 1h) holds moment *)
Covering(prices, moment) ==
    { i \in 1..Len(prices) :
        prices[i].timestamp <= moment /\ moment < prices[i].timestamp + Hour }

Last(S) == CHOOSE i \in S : \A j \in S : j <= i

(* the instant a "%Y-%m-%dT%H:%M:%S.000Z" text names, in ticks *)
InstantOf(text) == text.date * Day + text.H * Hour + (text.M * Hour) \div 60

(* C1: when _request returns an empty record list, gas_prices and          *)
(* energy_prices raise EasyEnergyNoDataError and hand out no model; no     *)
(* model an entry point returns has an empty mapping.                      *)
C1_EmptyResponseRaises ==
    /\ (Built(EntryPoints) /\ outcome.records = 0) =>
          /\ outcome.kind = "raise"
          /\ outcome.exc = "EasyEnergyNoDataError"
          /\ ~ModelBuilt
    /\ ModelBuilt => \A dt \in DataTypes(model) : Series(model, dt) # <<>>

C1_Witness ==
    /\ Built({"energy_prices"}) /\ outcome.records = 0
    /\ outcome.exc = "EasyEnergyNoDataError"

(* C2 as claimed: from_dict fails on an empty record sequence, so no model *)
(* built by from_dict has an empty price mapping.                          *)
C2_FromDictRejectsEmpty ==
    (Built(FromDict) /\ ModelBuilt) =>
        \A dt \in DataTypes(model) : Series(model, dt) # <<>>

(* C2 as amended: from_dict never fails on its length; it returns a model, *)
(* and a mapping of that model is empty exactly when the record sequence   *)
(* passed was empty.                                                       *)
C2_FromDictAcceptsEmpty ==
    Built(FromDict) =>
        /\ outcome.kind = "return" /\ ModelBuilt
        /\ \A dt \in DataTypes(model) :
              (Series(model, dt) = <<>>) <=> (outcome.passed.count = 0)

C2_Witness ==
    /\ Built({"Electricity.from_dict"}) /\ outcome.passed.count = 0
    /\ model.cls = "Electricity"
    /\ model.usage_prices = <<>> /\ model.return_prices = <<>>

(* C3 as claimed: price_at_time(moment) is the rounded price of the point  *)
(* whose hour holds the moment, the same for every moment of that hour,    *)
(* and None when no hour holds it.                                         *)
C3_PriceOfTheBucket ==
    Asked("price_at_time") =>
        LET at == Covering(Queried, result.moment)
        IN  /\ at = {} => result.out.value = None
            /\ \A i \in at :
                  result.out.value = Float(round5[Queried[i].price])

(* C3 as amended: price_at_time(moment) is the price, rounded to 5         *)
(* decimals, of the last point in iteration order whose hour               *)
(* [timestamp, timestamp + 1h) holds the moment, and None when no hour     *)
(* holds it; a price of 0 comes back as 0.  When one hour only holds the   *)
(* moment this is that point's price: at its timestamp, anywhere in its    *)
(* hour, and the next point's an hour later.                               *)
C3_PriceOfLastCoveringPoint ==
    Asked("price_at_time") =>
        LET at == Covering(Queried, result.moment)
        IN  /\ result.out.kind = "return"
            /\ at = {} => result.out.value = None
            /\ at # {} =>
                  /\ result.out.value # None
                  /\ result.out.value = Float(round5[Queried[Last(at)].price])
            /\ \A i \in at :
                  at = {i} => result.out.value = Float(round5[Queried[i].price])
            /\ \A i \in at :
                  (at = {i} /\ Queried[i].price = 0) => result.out.value = Float(0)

C3_Witness ==
    /\ Asked("price_at_time")
    /\ \E i, j \in Covering(Queried, result.moment) :
          /\ i < j /\ j = Len(Queried)
          /\ round5[Queried[i].price] # round5[Queried[j].price]
          /\ result.out.value = Float(round5[Queried[j].price])

(* the hour 0..23 that a wall clock shows at a local time in ticks *)
WallClockHour(local) ==
    CHOOSE h \in 0..23 :
        \E d \in -1..MaxDate + 1 :
            /\ d * Day + h * Hour <= local
            /\ local < d * Day + (h + 1) * Hour

(* C4: the window gas_prices asks for runs from 06:00 local of start_date  *)
(* to 06:00 local of end_date plus a day when the local hour of the call   *)
(* is 6..23, and from a day before 06:00 local of start_date to 06:00      *)
(* local of end_date when it is 0..5, both converted to UTC.               *)
C4_GasWindow ==
    Asking("gas_prices") =>
        LET start06 == call.start_date * Day + 6 * Hour - call.offset
            end06   == call.end_date * Day + 6 * Hour - call.offset
            asked   == <<InstantOf(call.params.startTimestamp),
                         InstantOf(call.params.endTimestamp)>>
            hour    == WallClockHour(call.at + call.offset)
        IN  /\ hour \in 6..23 => asked = <<start06, end06 + Day>>
            /\ hour \in 0..5  => asked = <<start06 - Day, end06>>
            /\ call.params.startTimestamp.S = 0
            /\ call.params.endTimestamp.S = 0

C4_Witness ==
    /\ Asking("gas_prices") /\ WallClockHour(call.at + call.offset) = 5
    /\ call.start_date = call.end_date
    /\ InstantOf(call.params.endTimestamp)
         = call.end_date * Day + 6 * Hour - call.offset

(* C5 as claimed: energy_prices asks for the window from 00:00 local of    *)
(* start_date minus one hour to 00:00 local of end_date plus one day, both *)
(* converted to UTC.                                                       *)
C5_PaddedEnergyWindow ==
    Asking("energy_prices") =>
        /\ InstantOf(call.params.startTimestamp)
             = call.start_date * Day - Hour - call.offset
        /\ InstantOf(call.params.endTimestamp)
             = call.end_date * Day + Day - call.offset

(* C5 as amended: energy_prices asks for the window from 00:00 local of    *)
(* start_date, with no hour taken off, to 00:00 local of end_date plus one *)
(* day, both converted to UTC, as startTimestamp and endTimestamp.         *)
C5_EnergyWindow ==
    Asking("energy_prices") =>
        /\ InstantOf(call.params.startTimestamp)
             = call.start_date * Day - call.offset
        /\ InstantOf(call.params.endTimestamp)
             = call.end_date * Day + Day - call.offset
        /\ call.uri = "getapxtariffs"

C5_Witness ==
    /\ Asking("energy_prices") /\ call.offset = 1 * Hour
    /\ call.start_date < call.end_date
    /\ call.params.startTimestamp.H = 23

(* the smallest and the largest of the JSON numbers of a series *)
Lowest(prices) ==
    CHOOSE p \in {prices[i].price : i \in 1..Len(prices)} :
        \A i \in 1..Len(prices) : p <= prices[i].price
Highest(prices) ==
    CHOOSE p \in {prices[i].price : i \in 1..Len(prices)} :
        \A i \in 1..Len(prices) : p >= prices[i].price

(* C6: on a series that is not empty the extreme prices are the pair of    *)
(* the smallest and the largest price, each rounded to 5 decimals; the     *)
(* first is at most the second, and they are equal when all prices are.    *)
C6_ExtremesAreMinMax ==
    (Asked("extreme_prices") /\ Queried # <<>>) =>
        /\ result.out.kind = "return"
        /\ result.out.value
             = <<round5[Lowest(Queried)], round5[Highest(Queried)]>>
        /\ result.out.value[1] <= result.out.value[2]
        /\ Lowest(Queried) = Highest(Queried) =>
              result.out.value[1] = result.out.value[2]

C6_Witness ==
    /\ Asked("extreme_prices") /\ Len(Queried) = 3
    /\ Queried[1].price > Queried[2].price
    /\ Queried[3].price > Queried[1].price
    /\ result.out.value[1] < result.out.value[2]

(* C7: the average price of a series that is not empty lies between the    *)
(* rounded minimum and the rounded maximum of the extreme prices.          *)
C7_AverageWithinExtremes ==
    (Asked("average_price") /\ Queried # <<>>) =>
        /\ result.out.kind = "return"
        /\ extreme_prices(Queried).value[1] <= result.out.value
        /\ result.out.value <= extreme_prices(Queried).value[2]

(* C8: when no point covers the current instant, pct_of_max of a series    *)
(* that is not empty takes 0 for the current price and returns 0.0.        *)
C8_PctIsZeroWithoutCurrent ==
    (/\ Asked("pct_of_max") /\ Queried # <<>>
     /\ Covering(Queried, result.moment) = {}) =>
        result.out = Return(0)

(* C9: when the current price is not negative and not above the maximum    *)
(* of the series, pct_of_max is a number from 0 to 100 (in hundredths:     *)
(* 0 to 10000).                                                            *)
C9_PctWithinHundred ==
    (/\ Asked("pct_of_max") /\ Queried # <<>>
     /\ Covering(Queried, result.moment) # {}) =>
        LET current == current_price(model, result.moment, result.data_type)[1]
            maximum == round5[Highest(Queried)]
        IN  (0 <= current /\ current <= maximum) =>
                /\ result.out.kind = "return"
                /\ 0 <= result.out.value /\ result.out.value <= 10000

Keys(prices) == [i \in 1..Len(prices) |-> prices[i].timestamp]

(* C10 as claimed: N records with pairwise different timestamps give N     *)
(* points; the timestamp list has one entry per point, in record order,    *)
(* each price the one price_at_time gives for the entry's timestamp.       *)
C10_ListMatchesPointQueries ==
    /\ (Built(FromDict) /\ outcome.passed.distinct)
          => \A dt \in DataTypes(model) :
                Len(Series(model, dt)) = outcome.passed.count
    /\ Asked("timestamp_prices") =>
          /\ Len(result.out.value) = Len(Queried)
          /\ \A i \in 1..Len(Queried) :
                /\ result.out.value[i].timestamp = Queried[i].timestamp
                /\ Float(result.out.value[i].price)
                     = price_at_time(model, Queried[i].timestamp,
                                     result.data_type)

(* C10 as amended: N records whose timestamps are pairwise different       *)
(* instants give N points in each series, in record order; the timestamp   *)
(* list has one entry per point in iteration order, its price the point's  *)
(* price rounded to 5 decimals, which is what price_at_time gives for the  *)
(* entry's timestamp when no later point's hour holds that timestamp; the  *)
(* list is built anew by every call, so a list the caller changed leaves   *)
(* the model and a later call's list as they are.                          *)
C10_ListMatchesPoints ==
    /\ (Built(FromDict) /\ outcome.passed.distinct)
          => \A dt \in DataTypes(model) :
                /\ Len(Series(model, dt)) = outcome.passed.count
                /\ Keys(Series(model, dt)) = outcome.passed.in_order
    /\ Asked("timestamp_prices") =>
          /\ Len(result.out.value) = Len(Queried)
          /\ \A i \in 1..Len(Queried) :
                /\ result.out.value[i].timestamp = Queried[i].timestamp
                /\ result.out.value[i].price = round5[Queried[i].price]
                /\ (\A j \in Covering(Queried, Queried[i].timestamp) : j <= i)
                      => Float(result.out.value[i].price)
                           = price_at_time(model, Queried[i].timestamp,
                                           result.data_type)
    /\ Asked("list changed") =>
          /\ Len(result.out.value) + 1 = Len(Queried)
          /\ \A i \in 1..Len(result.out.value) :
                result.out.value[i].timestamp = Queried[i + 1].timestamp

C10_Witness ==
    /\ Asked("timestamp_prices") /\ result.after_change
    /\ Built(FromDict) /\ outcome.passed.distinct
    /\ Len(result.out.value) = 3
    /\ result.out.value[1].timestamp > result.out.value[2].timestamp

(* the first point in iteration order that has a given price *)
FirstWith(prices, p) ==
    CHOOSE i \in 1..Len(prices) :
        /\ prices[i].price = p
        /\ \A j \in 1..(i - 1) : prices[j].price # p

(* C11: on a series that is not empty the lowest and the highest price     *)
(* time are the timestamp of a point whose price is the minimum and the    *)
(* maximum of the series; of several points with that price it is the one  *)
(* that comes first in the mapping's iteration order.                      *)
C11_FirstExtremePoint ==
    /\ (Asked("lowest_price_time") /\ Queried # <<>>) =>
          result.out
            = Return(Queried[FirstWith(Queried, Lowest(Queried))].timestamp)
    /\ (Asked("highest_price_time") /\ Queried # <<>>) =>
          result.out
            = Return(Queried[FirstWith(Queried, Highest(Queried))].timestamp)

C11_Witness ==
    /\ Asked("highest_price_time") /\ Len(Queried) = 3
    /\ Queried[2].price = Queried[3].price
    /\ Queried[1].price < Queried[2].price
    /\ Queried[3].timestamp < Queried[2].timestamp
    /\ result.out = Return(Queried[2].timestamp)

(* the current price of the queried series as a number: the rounded price  *)
(* of the last point whose hour holds the moment, 0 when there is none     *)
ReferencePrice ==
    LET at == Covering(Queried, result.moment)
    IN  IF at = {} THEN 0 ELSE round5[Queried[Last(at)].price]

C13_VatParameter ==
    /\ [](call.state = "awaiting" =>
            /\ call.vat_arg # NoArg => call.params.includeVat = call.vat_arg
            /\ call.vat_arg = NoArg => call.params.includeVat = vat
            /\ call.params.includeVat \in {"true", "false"})
    /\ [][vat' = vat]_vars

C13_Witness ==
    /\ Asking("energy_prices") /\ call.vat_arg = "false" /\ vat = "true"
    /\ call.params.includeVat = "false"
    /\ outcome = NoOutcome /\ call.at > 21

(* C14: the current price is price_at_time at the instant utcnow() gives,  *)
(* on the same series; when that instant is outside every hour of the      *)
(* series the current price is None, while the average and the extreme     *)
(* prices of a series that is not empty still return their values.         *)
C14_CurrentPriceFollowsClock ==
    /\ Asked("current_price") =>
          /\ result.out
               = Return(price_at_time(model, result.moment, result.data_type))
          /\ Covering(Queried, result.moment) = {} => result.out.value = None
          /\ Covering(Queried, result.moment) # {} => result.out.value # None
    /\ ((Asked("average_price") \/ Asked("extreme_prices")) /\ Queried # <<>>)
          => result.out.kind = "return"

C14_Witness ==
    /\ Asked("current_price") /\ Len(Queried) = 2
    /\ Covering(Queried, result.moment) = {}
    /\ result.moment = now
    /\ result.out.value = None

C16_OneFetchNoRetry ==
    /\ call.state = "awaiting" => call.requests = 0
    /\ Built(EntryPoints) =>
          /\ outcome.requests = 1
          /\ outcome.request # NoArg =>
                /\ outcome.kind = "raise"
                /\ outcome.exc = outcome.request
                /\ ~ModelBuilt

C16_Witness ==
    /\ Built({"energy_prices"}) /\ outcome.cause.dns = "hosts"
    /\ outcome.cause.reply = "TimeoutError"
    /\ outcome.exc = "EasyEnergyConnectionError" /\ outcome.requests = 1
    /\ ~ModelBuilt

(* C20: the client closes a session only if it created it.  A session the  *)
(* caller supplied is never closed and never marked for closing; a closed  *)
(* session is one the client created in a request; close() closes the      *)
(* session the client created.                                             *)
C20_ClosesOnlyOwnSession ==
    /\ []((session # NoSession /\ session.by = "caller") =>
             (~session.closed /\ ~close_session))
    /\ []((session # NoSession /\ session.by = "client") => close_session)
    /\ [][close => ((session # NoSession /\ session.by = "client")
                       => session'.closed)]_vars

C20_Witness ==
    /\ session # NoSession /\ session.by = "client" /\ session.closed
    /\ Built({"gas_prices"}) /\ outcome.kind = "return"

(* C17: the usage and the return mapping of an Electricity model built by  *)
(* from_dict have the same keys in the same iteration order.               *)
C17_SameKeys ==
    (ModelBuilt /\ model.cls = "Electricity") =>
        Keys(model.usage_prices) = Keys(model.return_prices)

C17_Witness ==
    /\ Built({"Electricity.from_dict"}) /\ model.cls = "Electricity"
    /\ outcome.passed.count = 3 /\ Len(model.usage_prices) = 2
    /\ model.return_prices[1].price = 0
    /\ model.usage_prices[1].timestamp > model.usage_prices[2].timestamp

(* whether some moment lies in the hour of two points of a series *)
Overlapping(prices) ==
    \E i, j \in 1..Len(prices) :
        /\ i # j
        /\ prices[i].timestamp <= prices[j].timestamp
        /\ prices[j].timestamp < prices[i].timestamp + Hour

InstantSet(instants) == {instants[i] : i \in 1..Len(instants)}

(* C18 as claimed: every key a construction stores is an instant on the    *)
(* hour, whatever the timestamps of the records, so that the hours of two  *)
(* points of a series never overlap.                                       *)
C18_KeysOnTheHour ==
    ModelBuilt =>
        \A dt \in DataTypes(model) :
            /\ \A i \in 1..Len(Series(model, dt)) :
                  Series(model, dt)[i].timestamp % Hour = 0
            /\ ~Overlapping(Series(model, dt))

(* C18 as amended: every key a construction stores is the UTC instant of   *)
(* a record's timestamp as parsed, minutes included, and every record's    *)
(* instant is a key; the hours of two points of a series do not overlap    *)
(* when all the timestamps are on the hour.                                *)
C18_KeysAsParsed ==
    Built(FromDict) =>
        \A dt \in DataTypes(model) :
            /\ InstantSet(Keys(Series(model, dt)))
                 = outcome.passed.instants
            /\ (\A t \in outcome.passed.instants : t % Hour = 0)
                  => ~Overlapping(Series(model, dt))

C18_Witness ==
    /\ Built({"Gas.from_dict"}) /\ Len(model.prices) = 2
    /\ model.prices[1].timestamp % Hour # 0
    /\ Overlapping(model.prices)

(* what a query gives when it is run alone on a model at a moment *)
Alone(op, m, moment, data_type) ==
    CASE op = "price_at_time" ->
            {Return(price_at_time(m, moment, data_type))}
      [] op = "current_price" ->
            {Return(current_price(m, moment, data_type))}
      [] op = "extreme_prices" -> {extreme_prices(Series(m, data_type))}
      [] op = "average_price" ->
            {average_price(Series(m, data_type), b) : b \in Builds}
      [] op = "pct_of_max" -> {pct_of_max(m, moment, data_type)}
      [] op = "timestamp_prices" ->
            {Return(generate_timestamp_list(Series(m, data_type)))}
      [] op = "lowest_price_time" ->
            {get_pricetime(Series(m, data_type), "min")}
      [] op = "highest_price_time" ->
            {get_pricetime(Series(m, data_type), "max")}
      [] op = "hours_priced" -> {hours_priced(m, moment, data_type)}

(* C19: no query changes the mappings of a model: after any sequence of    *)
(* queries they are what the construction made them, and every query       *)
(* gives what it gives when run alone on the constructed model at the      *)
(* same clock value.                                                       *)
C19_QueriesReadOnly ==
    Built(FromDict) =>
        /\ model = outcome.built
        /\ (result.op # "none" /\ result.op # "list changed") =>
              result.out
                \in Alone(result.op, outcome.built, result.moment,
                          result.data_type)

C19_Witness ==
    /\ Built({"Electricity.from_dict"}) /\ Asked("pct_of_max")
    /\ result.after_change /\ result.data_type = "usage"
    /\ model = outcome.built /\ Len(model.usage_prices) = 3
    /\ result.out.kind = "return"
    /\ 0 < result.out.value /\ result.out.value < 10000

(* C21: records with the same timestamp give one point, at the position   *)
(* of the first of them and with the price of the last of them; a series   *)
(* has as many points as the records have distinct timestamps, which can   *)
(* be fewer than the records; the usage and the return price an            *)
(* Electricity model keeps for a timestamp are those of one record, the    *)
(* last with that timestamp. Two timestamps are the same when they are     *)
(* the same instant.                                                       *)
C21_LastRecordAtFirstPlace ==
    Built(FromDict) =>
        LET kept == outcome.passed.last_of
        IN  /\ \A dt \in DataTypes(model) :
                  /\ Len(Series(model, dt))
                       = Cardinality(outcome.passed.instants)
                  /\ Len(Series(model, dt)) <= outcome.passed.count
                  /\ Keys(Series(model, dt))
                       = [n \in 1..Len(kept) |-> kept[n].timestamp]
            /\ model.cls = "Gas" =>
                  Values(model.prices)
                    = [n \in 1..Len(kept) |-> kept[n].item.TariffUsage]
            /\ model.cls = "Electricity" =>
                  /\ Values(model.usage_prices)
                       = [n \in 1..Len(kept) |-> kept[n].item.TariffUsage]
                  /\ Values(model.return_prices)
                       = [n \in 1..Len(kept) |-> kept[n].item.TariffReturn]

C21_Witness ==
    /\ Built({"Electricity.from_dict"}) /\ model.cls = "Electricity"
    /\ outcome.passed.count = 3 /\ Len(model.usage_prices) = 2
    /\ model.usage_prices[1].timestamp > model.usage_prices[2].timestamp
    /\ model.usage_prices[1].price = 225 /\ model.return_prices[1].price = 0
    /\ model.usage_prices[2].price = 0

(* C22 as claimed: pct_of_max raises ZeroDivisionError exactly when the   *)
(* maximum of the series, rounded to 5 decimals, is 0, with or without a   *)
(* current price; on every other series it returns a number.               *)
C22_PctFailsOnlyOnZeroMaximum ==
    Asked("pct_of_max") =>
        IF Queried # <<>> /\ round5[Highest(Queried)] = 0
        THEN result.out = Raise("ZeroDivisionError")
        ELSE result.out.kind = "return" /\ result.out.value \in Int

(* C22 as amended: on a series that is not empty pct_of_max raises         *)
(* ZeroDivisionError exactly when the maximum of the series, rounded to 5  *)
(* decimals, is 0, with or without a current price, and returns a number   *)
(* otherwise; on an empty series it raises ValueError.                     *)
C22_PctFailsOnZeroMaximumOrEmpty ==
    Asked("pct_of_max") =>
        IF Queried = <<>>
        THEN result.out = Raise("ValueError")
        ELSE IF round5[Highest(Queried)] = 0
        THEN result.out = Raise("ZeroDivisionError")
        ELSE result.out.kind = "return" /\ result.out.value \in Int

C22_Witness ==
    /\ Asked("pct_of_max") /\ result.data_type = "return"
    /\ Len(Queried) = 2 /\ Highest(Queried) = 4
    /\ \E i \in Covering(Queried, result.moment) : Queried[i].price = -2770
    /\ result.out = Raise("ZeroDivisionError")

(* C23: both boundaries of the window gas_prices and energy_prices ask    *)
(* for are converted with the one UTC offset the local zone has at the     *)
(* time of the call, whatever offset the zone has on the dates asked for:  *)
(* under that offset both are 06:00 (gas) or 00:00 (electricity) on the    *)
(* wall clock, and for start_date <= end_date the start lies before the    *)
(* end and the window is (end_date - start_date + 1) * 24 hours long.      *)
C23_FixedOffsetWindow ==
    (call.state = "awaiting" /\ call.start_date <= call.end_date) =>
        LET utc_start_date == InstantOf(call.params.startTimestamp)
            utc_end_date   == InstantOf(call.params.endTimestamp)
            wall_clock     == IF call.fn = "gas_prices" THEN 6 * Hour ELSE 0
        IN  /\ utc_start_date < utc_end_date
            /\ utc_end_date - utc_start_date
                 = (call.end_date - call.start_date + 1) * Day
            /\ (utc_start_date + call.offset) % Day = wall_clock
            /\ (utc_end_date + call.offset) % Day = wall_clock

C23_Witness ==
    /\ Asking("gas_prices") /\ WallClockHour(call.at + call.offset) < 6
    /\ call.start_date < call.end_date
    /\ utcoffset(call.offset, call.start_date) = call.offset
    /\ utcoffset(call.offset, call.end_date) # call.offset
    /\ InstantOf(call.params.endTimestamp)
         - InstantOf(call.params.startTimestamp) = 2 * Day

(* C24: when resolving the host fails or gives no result, _request raises *)
(* EasyEnergyConnectionError without touching the session: the step       *)
(* leaves session and _close_session as they were, so a client without a   *)
(* session still has none and its flag is still false, no session is      *)
(* constructed, and the call has issued no HTTP request.                   *)
C24_DnsFailureLeavesSession ==
    /\ [](\A t \in Tasks :
            (tasks[t].pc = "done" /\ tasks[t].answer.dns \in {"DNSError", "empty"})
              => /\ tasks[t].res = Raise("EasyEnergyConnectionError")
                 /\ tasks[t].issued = 0
                 /\ tasks[t].using = NoSession)
    /\ [][\A t \in Tasks :
            (/\ tasks[t].pc = "dns"
             /\ tasks[t].answer.dns \in {"DNSError", "empty"}
             /\ tasks'[t] # tasks[t])
              => /\ tasks'[t].pc = "done"
                 /\ session' = session
                 /\ close_session' = close_session
                 /\ created' = created]_vars

C24_Witness ==
    /\ \E t \in Tasks : tasks[t].pc = "done" /\ tasks[t].answer.dns = "DNSError"
    /\ \E t \in Tasks : tasks[t].pc = "done" /\ tasks[t].answer.dns = "empty"
    /\ session = NoSession /\ close_session = FALSE /\ created = 0

(* C25: however the requests of a client follow one another or interleave  *)
(* at their awaits, the client constructs at most one session, and only    *)
(* when it was given none; every request that reaches the server is issued *)
(* on the session the client holds, and a session the client holds is      *)
(* never replaced, close() included.                                       *)
C25_OneInternalSession ==
    /\ [](/\ created <= 1
          /\ created = 1 <=> session.by = "client"
          /\ \A t \in Tasks :
                (tasks[t].pc # "idle" /\ tasks[t].issued > 0)
                  => /\ session # NoSession
                     /\ tasks[t].using = [by |-> session.by, nth |-> created])
    /\ [][session # NoSession
            => (session'.by = session.by /\ created' = created)]_vars

C25_Witness ==
    /\ \A t \in Tasks : tasks[t].pc = "request" /\ tasks[t].using.by = "client"
    /\ session.by = "client" /\ session.closed /\ created = 1

====
